---- MODULE Spec2Model ----
(***************************************************************************)
(* TL Quotes Relay (server.js): upstream brand-socket events are           *)
(* normalised into per-symbol quotes, merged into the quote store and      *)
(* fanned out to SSE subscribers; a watchdog exits the process when the    *)
(* upstream socket is down and the feed is stale.                          *)
(*                                                                         *)
(* Node runs every handler to completion, so each handler is one action.   *)
(* JavaScript values are tagged records; strings are sequences of          *)
(* one-character strings so that split, trim, includes and toUpperCase     *)
(* are computed rather than assumed.  Prices are whole numbers.            *)
(***************************************************************************)
EXTENDS Integers, Sequences, FiniteSets, TLC

\* ------------------------------------------------------------------ bounds
\* Number of stream connections a behaviour may open.
MaxSubs == 2
\* Number of merges into the quote store a behaviour may perform.
MaxMerges == 2
\* Number of merges a behaviour of SpecStore may perform.
MaxMergesStore == 3
\* Number of keepalive pulses a behaviour may write.
MaxPings == 1
\* Wall clock (ms) at process start; Date.now() is far above STALE_MS.
StartTime == 1000000
\* Horizon of the clock, in watchdog polls, of Spec and of SpecWatchdog.
MaxPolls == 1
MaxPollsWatchdog == 5

\* --------------------------------------------------------- configuration
\* The default of Number(process.env.STALE_MS || 120000)
DEFAULT_STALE_MS == 120000
\* The period of the watchdog's setInterval
POLL_MS == 30000

\* ------------------------------------------------------ JavaScript values
Undef == [k |-> "undefined"]
Null == [k |-> "null"]
NaN == [k |-> "NaN"]
Infinity == [k |-> "Infinity"]
Num(i) == [k |-> "number", v |-> i]
Str(s) == [k |-> "string", v |-> s]
Arr(a) == [k |-> "array", v |-> a]
Obj(f) == [k |-> "object", v |-> f]

IsNum(x) == x.k = "number"
IsStr(x) == x.k = "string"
IsArr(x) == x.k = "array"
IsObj(x) == x.k = "object"

\* JavaScript truthiness (the operand of ||, &&, ! and if).
Truthy(x) ==
  CASE x.k \in {"undefined", "null", "NaN"} -> FALSE
    [] IsNum(x) -> x.v # 0
    [] IsStr(x) -> x.v # <<>>
    [] OTHER -> TRUE

\* a || b
Or(a, b) == IF Truthy(a) THEN a ELSE b

\* Number.isFinite(x)
IsFinite(x) == IsNum(x)

\* ---------------------------------------------------------------- strings
Digits == <<"0", "1", "2", "3", "4", "5", "6", "7", "8", "9">>
Lower == <<"a", "b", "c", "d", "e", "f", "g", "h", "i", "j", "k", "l", "m",
           "n", "o", "p", "q", "r", "s", "t", "u", "v", "w", "x", "y", "z">>
Upper == <<"A", "B", "C", "D", "E", "F", "G", "H", "I", "J", "K", "L", "M",
           "N", "O", "P", "Q", "R", "S", "T", "U", "V", "W", "X", "Y", "Z">>

IndexIn(c, seq) ==
  IF \E i \in 1..Len(seq) : seq[i] = c
  THEN CHOOSE i \in 1..Len(seq) : seq[i] = c
  ELSE 0

\* String.prototype.toUpperCase
toUpperCase(s) ==
  [i \in 1..Len(s) |->
     IF IndexIn(s[i], Lower) # 0 THEN Upper[IndexIn(s[i], Lower)] ELSE s[i]]

\* String.prototype.includes
includes(s, pat) ==
  \E i \in 0..(Len(s) - Len(pat)) : SubSeq(s, i + 1, i + Len(pat)) = pat

RECURSIVE TrimStart(_)
TrimStart(s) ==
  IF s # <<>> /\ Head(s) = " " THEN TrimStart(Tail(s)) ELSE s

RECURSIVE TrimEnd(_)
TrimEnd(s) ==
  IF s # <<>> /\ s[Len(s)] = " " THEN TrimEnd(SubSeq(s, 1, Len(s) - 1)) ELSE s

\* String.prototype.trim
trim(s) == TrimEnd(TrimStart(s))

\* String.prototype.split(',')
RECURSIVE split(_, _)
split(s, sep) ==
  IF \E i \in 1..Len(s) : s[i] = sep
  THEN LET i == CHOOSE j \in 1..Len(s) :
                  s[j] = sep /\ \A h \in 1..(j - 1) : s[h] # sep
       IN <<SubSeq(s, 1, i - 1)>> \o split(SubSeq(s, i + 1, Len(s)), sep)
  ELSE <<s>>

\* Decimal digits of a non-negative integer.
RECURSIVE DigitsOf(_)
DigitsOf(i) ==
  IF i < 10 THEN <<Digits[i + 1]>> ELSE DigitsOf(i \div 10) \o <<Digits[(i % 10) + 1]>>

RECURSIVE ParseDigits(_, _)
ParseDigits(s, acc) ==
  IF s = <<>> THEN acc
  ELSE ParseDigits(Tail(s), (acc * 10) + (IndexIn(Head(s), Digits) - 1))

\* Array.prototype.join(',') over an array of strings.
RECURSIVE join(_)
join(a) ==
  IF a = <<>> THEN <<>>
  ELSE IF Len(a) = 1 THEN Head(a).v
  ELSE Head(a).v \o <<",">> \o join(Tail(a))

\* String(x)
String(x) ==
  CASE IsStr(x) -> x.v
    [] IsNum(x) -> IF x.v < 0 THEN <<"-">> \o DigitsOf(0 - x.v) ELSE DigitsOf(x.v)
    [] IsArr(x) -> join(x.v)
    [] IsObj(x) -> <<"[", "o", "b", "j", "e", "c", "t", " ",
                     "O", "b", "j", "e", "c", "t", "]">>
    [] x = Undef -> <<"u", "n", "d", "e", "f", "i", "n", "e", "d">>
    [] x = Null -> <<"n", "u", "l", "l">>
    [] x = NaN -> <<"N", "a", "N">>
    [] OTHER -> <<"I", "n", "f", "i", "n", "i", "t", "y">>

\* Number(x): numbers are kept, a string of digits is parsed, a blank string
\* and null are 0, the string "Infinity" is Infinity, anything else is NaN.
Number(x) ==
  CASE x.k \in {"number", "NaN", "Infinity"} -> x
    [] x = Null -> Num(0)
    [] IsStr(x) ->
         LET t == trim(x.v) IN
         IF t = <<>> THEN Num(0)
         ELSE IF \A i \in 1..Len(t) : IndexIn(t[i], Digits) # 0
              THEN Num(ParseDigits(t, 0))
         ELSE IF t = String(Infinity) THEN Infinity
         ELSE NaN
    [] OTHER -> NaN

\* ---------------------------------------------------------------- helpers
\* const n = (v) => { const x = Number(v); return Number.isFinite(x) ? x : NaN; }
n(v) == IF IsFinite(Number(v)) THEN Number(v) ELSE NaN

\* Object.prototype.hasOwnProperty.call(cur, k), guarded by `cur &&`.
hasOwn(cur, key) == IsObj(cur) /\ key \in DOMAIN cur.v

\* The inner loop of first: walk one path, split into its parts.
RECURSIVE walk(_, _)
walk(cur, parts) ==
  IF parts = <<>> THEN cur
  ELSE IF hasOwn(cur, Head(parts)) THEN walk(cur.v[Head(parts)], Tail(parts))
  ELSE Undef

\* first(obj, paths): the first path whose value is not undefined, null or ''.
RECURSIVE first(_, _)
first(obj, paths) ==
  IF paths = <<>> THEN Undef
  ELSE LET cur == walk(obj, Head(paths)) IN
       IF cur # Undef /\ cur # Null /\ cur # Str(<<>>) THEN cur
       ELSE first(obj, Tail(paths))

\* m?.key
get(m, key) == IF hasOwn(m, key) THEN m.v[key] ELSE Undef

\* ----------------------------------------------------------------- config
\* process.env.TL_ENV || 'LIVE'
TYPE == <<"L", "I", "V", "E">>
\* process.env.READ_TOKEN of a deployment that sets one.
READ_TOKEN == <<"r", "t">>

\* ----------------------------------------------------------- input values
EURUSD == <<"E", "U", "R", "U", "S", "D">>
GBPUSD == <<"G", "B", "P", "U", "S", "D">>

\* {type:"QUOTE", quote:{symbol:"EURUSD", bid:"1", ask:2}}
EvQuote ==
  Obj([type |-> Str(<<"Q", "U", "O", "T", "E">>),
       quote |-> Obj([symbol |-> Str(EURUSD), bid |-> Str(<<"1">>), ask |-> Num(2)])])
\* {type:"tick", s:"EURUSD", b:0, ts:5}
EvTick ==
  Obj([type |-> Str(<<"t", "i", "c", "k">>),
       s |-> Str(EURUSD), b |-> Num(0), ts |-> Num(5)])
\* {data:{quote:{instrument:"GBPUSD", ask:3, last:"x"}}}
EvData ==
  Obj([data |-> Obj([quote |->
         Obj([instrument |-> Str(GBPUSD), ask |-> Num(3), last |-> Str(<<"x">>)])])])
\* {type:"PriceUpdate", payload:{Symbol:"EURUSD", bid:null, price:"Infinity"}}
EvBlank ==
  Obj([type |-> Str(<<"P", "r", "i", "c", "e", "U", "p", "d", "a", "t", "e">>),
       payload |-> Obj([Symbol |-> Str(EURUSD), bid |-> Null,
                        price |-> Str(<<"I", "n", "f", "i", "n", "i", "t", "y">>)])])
\* {type:"NEWS"}
EvNews == Obj([type |-> Str(<<"N", "E", "W", "S">>)])
\* {type:"NEWS", symbol:"EURUSD", bid:7}
EvNewsQuote ==
  Obj([type |-> Str(<<"N", "E", "W", "S">>), symbol |-> Str(EURUSD), bid |-> Num(7)])
\* {type:"MARKET", payload:{symbol:"", bid:1}}
EvNoSymbol ==
  Obj([type |-> Str(<<"M", "A", "R", "K", "E", "T">>),
       payload |-> Obj([symbol |-> Str(<<>>), bid |-> Num(1)])])

\* The upstream messages a behaviour draws from.
Events == {EvQuote, EvTick, EvData, EvBlank, EvNews, EvNewsQuote, EvNoSymbol}

\* req.query.symbols || req.query['symbols[]'] of a stream or state request:
\* none, "EURUSD, " and [" EURUSD", ""].
Queries == {Undef, Str(EURUSD \o <<",", " ">>), Arr(<<Str(<<" ">> \o EURUSD), Str(<<>>)>>)}

\* req.query.token || req.headers['x-read-token'] of a request.
Tokens == {Undef, Str(READ_TOKEN)}

\* The err of a connect_error event.
ConnectErrors == {Undef, Obj([message |-> Str(<<"t", "i", "m", "e", "o", "u", "t">>)])}

SubIds == 1..MaxSubs

\* ------------------------------------------------------------------ state
VARIABLES
  quotes,            \* Map symbol -> {bid, ask, last, time}
  subs,              \* Set of registered subscribers (connection ids)
  filter,            \* sub.filter of each connection
  ping,              \* whether sub.ping, the keepalive interval, is active
  chan,              \* connection: "none", "open", "broken" (socket gone,
                     \* close not yet emitted), "closed" (close handled)
  out,               \* the frames written to each connection's res, in order
                     \* (a "broken" connection refuses them: write returns false)
  merges,            \* the merges applied to the store, in order
  lastBrandEventAt,
  lastConnectError,
  STALE_MS,          \* Number(process.env.STALE_MS || 120000), fixed at start
  connected,         \* socket.connected
  now,               \* Date.now()
  nextPoll,          \* when the watchdog interval is next due
  exited,            \* process.exit was called
  reply              \* the response res.json sent last, to a state, health
                     \* or brand-status request

vars == <<quotes, subs, filter, ping, chan, out, merges,
          lastBrandEventAt, lastConnectError, STALE_MS, connected, now, nextPoll,
          exited, reply>>

registry == <<subs, filter, ping, chan>>
upstream == <<lastConnectError, STALE_MS, connected>>
clock == <<now, nextPoll, exited>>

\* No JSON response was sent yet.
NoReply == [route |-> "none"]

Start(staleMs) ==
  /\ STALE_MS = staleMs
  /\ quotes = <<>>
  /\ subs = {}
  /\ filter = [s \in SubIds |-> {}]
  /\ ping = [s \in SubIds |-> FALSE]
  /\ chan = [s \in SubIds |-> "none"]
  /\ out = [s \in SubIds |-> <<>>]
  /\ merges = <<>>
  /\ lastBrandEventAt = 0
  /\ lastConnectError = Str(<<>>)
  /\ connected = FALSE
  /\ now = StartTime
  /\ nextPoll = StartTime + POLL_MS
  /\ exited = FALSE
  /\ reply = NoReply

\* The process as started with the default configuration.
Init == Start(DEFAULT_STALE_MS)

\* The process as started with STALE_MS unset or set to 0 (watchdog off).
InitWatchdog == \E staleMs \in {0, DEFAULT_STALE_MS} : Start(staleMs)

\* ------------------------------------------------------------- broadcast
\* JSON.stringify of a quote: undefined members are left out, NaN and
\* Infinity become null.
stringify(q) ==
  [f \in {g \in DOMAIN q : q[g] # Undef} |->
     IF q[f].k \in {"NaN", "Infinity"} THEN Null ELSE q[f]]

\* accepts with the size test forgotten: an empty filter accepts nothing.
accepts_has_only(flt, symbol) == symbol \in flt

\* The test of pushQuote's loop and of the snapshot loops:
\* !(filter.size && !filter.has(symbol))
accepts(flt, symbol) == ~(flt # {} /\ symbol \notin flt)

UpdateFrame(symbol, q) ==
  [event |-> "quotes", serverTime |-> now, symbol |-> symbol, quote |-> stringify(q)]

\* write with the line put ahead of the frames already written.
write_prepend(to, line) ==
  out' = [s \in SubIds |-> IF s \in to THEN <<line>> \o out[s] ELSE out[s]]

\* sub.res.write(line) for every subscriber in to; nothing is done with the
\* value write returns.
write(to, line) ==
  out' = [s \in SubIds |-> IF s \in to THEN Append(out[s], line) ELSE out[s]]

\* pushQuote sending the record the store held before the merge.
pushQuote_stale(symbol) ==
  IF symbol \notin DOMAIN quotes
  THEN UNCHANGED out
  ELSE write({s \in subs : accepts(filter[s], symbol)},
             UpdateFrame(symbol, quotes[symbol]))

\* function pushQuote(symbol), run after the store was updated.
pushQuote(symbol) ==
  IF symbol \notin DOMAIN quotes'
  THEN UNCHANGED out
  ELSE write({s \in subs : accepts(filter[s], symbol)},
             UpdateFrame(symbol, quotes'[symbol]))

\* ------------------------------------------------------------ quote store
\* quotes.get(symbol) || {}
stored(symbol) ==
  IF symbol \in DOMAIN quotes THEN quotes[symbol]
  ELSE [bid |-> Undef, ask |-> Undef, last |-> Undef, time |-> Undef]

\* merged with a truthiness test in place of Number.isFinite: 0 counts as absent.
merged_truthy(cur, patch) ==
  [bid |-> IF Truthy(patch.bid) THEN patch.bid ELSE cur.bid,
   ask |-> IF Truthy(patch.ask) THEN patch.ask ELSE cur.ask,
   last |-> IF Truthy(patch.last) THEN patch.last ELSE cur.last,
   time |-> Or(patch.time, Num(now))]

\* merged with bid falling back to the stored ask.
merged_wrong_fallback(cur, patch) ==
  [bid |-> IF IsFinite(patch.bid) THEN patch.bid ELSE cur.ask,
   ask |-> IF IsFinite(patch.ask) THEN patch.ask ELSE cur.ask,
   last |-> IF IsFinite(patch.last) THEN patch.last ELSE cur.last,
   time |-> Or(patch.time, Num(now))]

\* merged with the time kept when the patch brings no finite price.
merged_time_with_price(cur, patch) ==
  [bid |-> IF IsFinite(patch.bid) THEN patch.bid ELSE cur.bid,
   ask |-> IF IsFinite(patch.ask) THEN patch.ask ELSE cur.ask,
   last |-> IF IsFinite(patch.last) THEN patch.last ELSE cur.last,
   time |-> IF \E f \in {"bid", "ask", "last"} : IsFinite(patch[f]) \/ cur.time = Undef
            THEN Or(patch.time, Num(now)) ELSE cur.time]

\* The record touchQuote builds from the stored record and the patch.
merged(cur, patch) ==
  [bid |-> IF IsFinite(patch.bid) THEN patch.bid ELSE cur.bid,
   ask |-> IF IsFinite(patch.ask) THEN patch.ask ELSE cur.ask,
   last |-> IF IsFinite(patch.last) THEN patch.last ELSE cur.last,
   time |-> Or(patch.time, Num(now))]

\* function touchQuote(symbol, patch)
touchQuote(symbol, patch) ==
  IF symbol = <<>>
  THEN UNCHANGED <<quotes, merges, out>>
  ELSE /\ quotes' = (symbol :> merged(stored(symbol), patch)) @@ quotes
       /\ merges' = Append(merges, [symbol |-> symbol, patch |-> patch])
       /\ pushQuote(symbol)

\* ------------------------------------------------------------- normaliser
Keys(names) == [i \in 1..Len(names) |-> <<names[i]>>]
SymbolKeys == Keys(<<"symbol", "instrument", "symbolName", "s", "Symbol">>)
BidKeys == Keys(<<"bid", "b", "Bid", "BidPrice">>)
AskKeys == Keys(<<"ask", "a", "Ask", "AskPrice">>)
LastKeys == Keys(<<"last", "price", "p", "mark", "Last", "LastPrice">>)
TimeKeys == Keys(<<"time", "ts", "timestamp", "Time", "Timestamp">>)

\* m?.quote || m?.data?.quote || m?.payload?.quote || m?.payload || m
body(m) ==
  Or(get(m, "quote"),
     Or(get(get(m, "data"), "quote"),
        Or(get(get(m, "payload"), "quote"), Or(get(m, "payload"), m))))

\* The symbol processQuoteLikeEvent resolves ('' when there is none).
symbolOf(m) == String(Or(first(body(m), SymbolKeys), Str(<<>>)))

\* The patch processQuoteLikeEvent hands to touchQuote.
patchOf(m) ==
  LET src == body(m)
      bid == n(first(src, BidKeys))
      ask == n(first(src, AskKeys))
      last == n(first(src, LastKeys))
  IN [bid |-> IF IsFinite(bid) THEN bid ELSE Undef,
      ask |-> IF IsFinite(ask) THEN ask ELSE Undef,
      last |-> IF IsFinite(last) THEN last ELSE Undef,
      time |-> Or(Number(first(src, TimeKeys)), Num(now))]

\* function processQuoteLikeEvent(m)
processQuoteLikeEvent(m) ==
  IF symbolOf(m) = <<>>
  THEN UNCHANGED <<quotes, merges, out>>
  ELSE touchQuote(symbolOf(m), patchOf(m))

\* quoteLike taking every event of the feed for a quote.
quoteLike_any(m) == TRUE

\* The condition of the stream handler.
quoteLike(m) ==
  LET t == toUpperCase(String(Or(get(m, "type"), Str(<<>>)))) IN
  \/ includes(t, <<"Q", "U", "O", "T", "E">>)
  \/ includes(t, <<"T", "I", "C", "K">>)
  \/ includes(t, <<"P", "R", "I", "C">>)
  \/ includes(t, <<"M", "A", "R", "K", "E", "T">>)
  \/ Truthy(get(m, "quote"))
  \/ Truthy(get(get(m, "data"), "quote"))
  \/ Truthy(get(get(m, "payload"), "quote"))

\* socket.on('stream', (m) => ...)
OnStream(m) ==
  /\ ~exited
  /\ connected
  /\ lastBrandEventAt' = now
  /\ IF quoteLike(m)
     THEN processQuoteLikeEvent(m)
     ELSE UNCHANGED <<quotes, merges, out>>
  /\ UNCHANGED <<registry, upstream, clock, reply>>

\* ------------------------------------------------------------ subscribers
\* function parseSymbolsParam(q)
parseSymbolsParam(q) ==
  LET q1 == IF IsArr(q) THEN Str(join(q.v)) ELSE q
      parts == split(String(Or(q1, Str(<<>>))), ",")
  IN {trim(parts[i]) : i \in 1..Len(parts)} \ {<<>>}

\* function checkToken(req, res)
checkToken(tok) ==
  IF READ_TOKEN = <<>> THEN TRUE
  ELSE String(Or(tok, Str(<<>>))) = READ_TOKEN

HelloFrame == [event |-> "hello", ok |-> TRUE, env |-> TYPE]
PingFrame == [event |-> "ping"]

\* snapshot without the filter test: every stored quote.
snapshot_unfiltered(flt) == [x \in DOMAIN quotes |-> stringify(quotes[x])]

\* The object both snapshot loops build: the stored quotes the filter accepts.
snapshot(flt) ==
  [x \in {y \in DOMAIN quotes : accepts(flt, y)} |-> stringify(quotes[x])]

SnapshotFrame(flt) == [event |-> "quotes", serverTime |-> now, all |-> snapshot(flt)]

\* opening without the initial snapshot.
opening_hello_only(flt) == <<HelloFrame>>

\* The frames the stream handler writes before it registers the subscriber.
opening(flt) == <<HelloFrame, SnapshotFrame(flt)>>

\* app.get('/quotes/stream'), for connection s
Subscribe(s, q, tok) ==
  /\ ~exited
  /\ chan[s] = "none"
  /\ \A t \in SubIds : t < s => chan[t] # "none"
  /\ IF ~checkToken(tok)
     THEN UNCHANGED <<subs, filter, ping, chan, out>>
     ELSE /\ filter' = [filter EXCEPT ![s] = parseSymbolsParam(q)]
          /\ out' = [out EXCEPT ![s] = opening(parseSymbolsParam(q))]
          /\ ping' = [ping EXCEPT ![s] = TRUE]
          /\ subs' = subs \cup {s}
          /\ chan' = [chan EXCEPT ![s] = "open"]
  /\ UNCHANGED <<quotes, merges, lastBrandEventAt, upstream, clock, reply>>

\* The keepalive pulses written so far.
Pings == {<<s, i>> \in SubIds \X (1..(MaxMerges + MaxPings + 2)) :
            i <= Len(out[s]) /\ out[s][i] = PingFrame}

\* The keepalive interval of connection s fires: res.write(': ping')
Ping(s) ==
  /\ ~exited
  /\ ping[s]
  /\ write({s}, PingFrame)
  /\ UNCHANGED <<quotes, merges, registry, lastBrandEventAt, upstream, clock, reply>>

\* The client of connection s goes away: the socket is destroyed and the
\* request's close event is due.
ClientDrop(s) ==
  /\ ~exited
  /\ chan[s] = "open"
  /\ chan' = [chan EXCEPT ![s] = "broken"]
  /\ UNCHANGED <<quotes, merges, subs, filter, ping, out,
                 lastBrandEventAt, upstream, clock, reply>>

\* removed without clearInterval: the entry goes, the interval runs on.
removed_keeps_timer(reg, s) == [subs |-> reg.subs \ {s}, ping |-> reg.ping]

\* removed without subs.delete: the interval is cleared, the entry stays.
removed_not_deleted(reg, s) ==
  [subs |-> reg.subs, ping |-> [reg.ping EXCEPT ![s] = FALSE]]

\* removed with the keepalive flipped rather than cleared.
removed_toggle(reg, s) ==
  [subs |-> reg.subs \ {s}, ping |-> [reg.ping EXCEPT ![s] = ~reg.ping[s]]]

\* The body of the close handler: clearInterval(sub.ping); subs.delete(sub)
removed(reg, s) ==
  [subs |-> reg.subs \ {s}, ping |-> [reg.ping EXCEPT ![s] = FALSE]]

\* req.on('close', ...) of connection s
ReqClose(s) ==
  /\ ~exited
  /\ chan[s] = "broken"
  /\ subs' = removed([subs |-> subs, ping |-> ping], s).subs
  /\ ping' = removed([subs |-> subs, ping |-> ping], s).ping
  /\ chan' = [chan EXCEPT ![s] = "closed"]
  /\ UNCHANGED <<quotes, merges, filter, out, lastBrandEventAt, upstream, clock,
                 reply>>

\* ----------------------------------------------------------------- routes
\* res.status(401).json({ ok:false, error:'unauthorized' })
Unauthorized(route) ==
  [route |-> route, status |-> 401, body |-> [ok |-> FALSE, error |-> "unauthorized"]]

\* stateBody with quotes.size as the count.
stateBody_store_size(flt) ==
  [serverTime |-> now, count |-> Cardinality(DOMAIN quotes), quotes |-> snapshot(flt)]

\* { serverTime: Date.now(), count: Object.keys(out).length, quotes: out }
stateBody(flt) ==
  [serverTime |-> now, count |-> Cardinality(DOMAIN snapshot(flt)),
   quotes |-> snapshot(flt)]

\* app.get('/quotes/state')
GetState(q, tok) ==
  /\ ~exited
  /\ reply' = IF ~checkToken(tok) THEN Unauthorized("state")
              ELSE [route |-> "state", status |-> 200,
                    body |-> stateBody(parseSymbolsParam(q))]
  /\ UNCHANGED <<quotes, merges, registry, out, lastBrandEventAt, upstream, clock>>

\* { ok:true, env: TYPE, symbols: quotes.size }
healthBody == [ok |-> TRUE, env |-> TYPE, symbols |-> Cardinality(DOMAIN quotes)]

\* app.get('/health')
GetHealth ==
  /\ ~exited
  /\ reply' = [route |-> "health", status |-> 200, body |-> healthBody]
  /\ UNCHANGED <<quotes, merges, registry, out, lastBrandEventAt, upstream, clock>>

\* { env, server, connected, symbols, lastBrandEventAt, lastConnectError, now }
statusBody ==
  [env |-> TYPE, server |-> "SERVER", connected |-> connected,
   symbols |-> Cardinality(DOMAIN quotes), lastBrandEventAt |-> lastBrandEventAt,
   lastConnectError |-> lastConnectError.v, now |-> now]

\* GetBrandStatus counting the request as an event of the feed.
GetBrandStatus_refreshing ==
  /\ ~exited
  /\ reply' = [route |-> "status", status |-> 200, body |-> statusBody]
  /\ lastBrandEventAt' = now
  /\ UNCHANGED <<quotes, merges, registry, out, upstream, clock>>

\* app.get('/brand/status')
GetBrandStatus ==
  /\ ~exited
  /\ reply' = [route |-> "status", status |-> 200, body |-> statusBody]
  /\ UNCHANGED <<quotes, merges, registry, out, lastBrandEventAt, upstream, clock>>

\* ---------------------------------------------------------- brand socket
\* SocketConnect counting the connect as an event of the feed.
SocketConnect_refreshing ==
  /\ ~exited
  /\ ~connected
  /\ connected' = TRUE
  /\ lastConnectError' = Str(<<>>)
  /\ lastBrandEventAt' = now
  /\ UNCHANGED <<quotes, merges, registry, out, STALE_MS, clock, reply>>

\* socket.on('connect', ...)
SocketConnect ==
  /\ ~exited
  /\ ~connected
  /\ connected' = TRUE
  /\ lastConnectError' = Str(<<>>)
  /\ UNCHANGED <<quotes, merges, registry, out, lastBrandEventAt, STALE_MS, clock,
                 reply>>

\* socket.on('disconnect', ...): the handler only logs; socket.connected falls.
SocketDisconnect ==
  /\ ~exited
  /\ connected
  /\ connected' = FALSE
  /\ UNCHANGED <<quotes, merges, registry, out, lastBrandEventAt,
                 lastConnectError, STALE_MS, clock, reply>>

\* (err && (err.message || String(err))) || 'connect_error'
connectErrorText(err) ==
  Or(IF Truthy(err) THEN Or(get(err, "message"), Str(String(err))) ELSE err,
     Str(<<"c", "o", "n", "n", "e", "c", "t", "_", "e", "r", "r", "o", "r">>))

\* socket.on('connect_error', ...)
SocketConnectError(err) ==
  /\ ~exited
  /\ ~connected
  /\ lastConnectError' = connectErrorText(err)
  /\ UNCHANGED <<quotes, merges, registry, out, lastBrandEventAt,
                 STALE_MS, connected, clock, reply>>

\* --------------------------------------------------------------- watchdog
\* stale without the connectivity test.
stale_any_socket == now - lastBrandEventAt > STALE_MS

\* stale with >= in place of >.
stale_at_threshold == ~connected /\ now - lastBrandEventAt >= STALE_MS

\* stale counting the age from the first stream event only.
stale_after_first_event ==
  ~connected /\ lastBrandEventAt # 0 /\ now - lastBrandEventAt > STALE_MS

\* The test of the watchdog: the socket is down and the feed is stale.
stale == ~connected /\ now - lastBrandEventAt > STALE_MS

\* Watchdog without `if (!STALE_MS) return`.
Watchdog_no_switch ==
  /\ ~exited
  /\ now >= nextPoll
  /\ nextPoll' = now + POLL_MS
  /\ exited' = stale
  /\ UNCHANGED <<quotes, merges, registry, out, lastBrandEventAt, upstream, now,
                 reply>>

\* setInterval(() => {...}, 30000)
Watchdog ==
  /\ ~exited
  /\ now >= nextPoll
  /\ nextPoll' = now + POLL_MS
  /\ exited' = (STALE_MS # 0 /\ stale)
  /\ UNCHANGED <<quotes, merges, registry, out, lastBrandEventAt, upstream, now,
                 reply>>

\* Time passes by d ms; timers fire when they are due.
Tick(d, horizon) ==
  /\ ~exited
  /\ now + d <= nextPoll
  /\ now + d <= horizon
  /\ now' = now + d
  /\ UNCHANGED <<quotes, merges, registry, out, lastBrandEventAt, upstream,
                 nextPoll, exited, reply>>

\* ---------------------------------------------------------- specifications
\* The relay: the feed, the store and the subscribers, at one instant of the
\* wall clock.
Next ==
  \/ \E m \in Events : Len(merges) < MaxMerges /\ OnStream(m)
  \/ \E s \in SubIds, q \in Queries, tok \in Tokens : Subscribe(s, q, tok)
  \/ \E s \in SubIds : Cardinality(Pings) < MaxPings /\ Ping(s)
  \/ \E s \in SubIds : ClientDrop(s)
  \/ \E s \in SubIds : ReqClose(s)
  \/ SocketConnect
  \/ SocketDisconnect

Spec == Init /\ [][Next]_vars

\* The feed and the store as the wall clock advances.
NextStore ==
  \/ \E m \in Events : Len(merges) < MaxMergesStore /\ OnStream(m)
  \/ SocketConnect
  \/ SocketDisconnect
  \/ \E err \in ConnectErrors : SocketConnectError(err)
  \/ Watchdog
  \/ Tick(POLL_MS, StartTime + (MaxPolls * POLL_MS))

SpecStore == Init /\ [][NextStore]_vars

\* The steps of the clock that put a poll 119, 120 and 121 s after an event.
WatchdogTicks == {1000, 29000, POLL_MS}

\* The watchdog, the socket and the feed's events as the wall clock advances.
NextWatchdog ==
  \/ OnStream(EvNews)
  \/ SocketConnect
  \/ SocketDisconnect
  \/ Watchdog
  \/ \E d \in WatchdogTicks : Tick(d, StartTime + (MaxPollsWatchdog * POLL_MS))

SpecWatchdog == InitWatchdog /\ [][NextWatchdog]_vars

\* The JSON routes against the feed, the store and the subscribers, at one
\* instant of the wall clock.
NextQuery ==
  \/ \E m \in Events : Len(merges) < MaxMerges /\ OnStream(m)
  \/ \E q \in Queries, tok \in Tokens : Subscribe(1, q, tok)
  \/ SocketConnect
  \/ SocketDisconnect
  \/ \E err \in ConnectErrors : SocketConnectError(err)
  \/ \E q \in Queries, tok \in Tokens : GetState(q, tok)
  \/ GetHealth
  \/ GetBrandStatus

SpecQuery == Init /\ [][NextQuery]_vars

\* ------------------------------------------------------------- properties
PriceFields == {"bid", "ask", "last"}

IsUpdate(f) == f.event = "quotes" /\ "symbol" \in DOMAIN f
IsSnapshot(f) == f.event = "quotes" /\ "all" \in DOMAIN f

\* The frames a step writes to connection s.
Written(s) == SubSeq(out'[s], Len(out[s]) + 1, Len(out'[s]))

\* A step that merges a delta into the store, and the symbol it merges.
Merged == Len(merges') = Len(merges) + 1
MergedSymbol == merges'[Len(merges')].symbol

\* The frames of a sequence that are updates, and their symbols.
Updates(frames) == SelectSeq(frames, IsUpdate)
UpdateSymbols(frames) == [i \in 1..Len(Updates(frames)) |-> Updates(frames)[i].symbol]

\* A subscriber's filter is empty or contains the symbol.
Wants(s, symbol) == filter[s] = {} \/ symbol \in filter[s]

\* A step writes connection s exactly one frame, an update of the merged symbol.
GetsUpdate(s) ==
  /\ Len(Written(s)) = 1
  /\ IsUpdate(Written(s)[1])
  /\ Written(s)[1].symbol = MergedSymbol

\* C1: a subscriber with a non-empty filter is never written an update of a
\* symbol outside its filter, and a registered subscriber with an empty
\* filter is written an update of every merge.
C1_FilterDelivery ==
  [][\A s \in SubIds :
       /\ \A i \in 1..Len(Written(s)) :
            (IsUpdate(Written(s)[i]) /\ filter'[s] # {})
              => Written(s)[i].symbol \in filter'[s]
       /\ (Merged /\ s \in subs /\ filter[s] = {}) => GetsUpdate(s)]_vars

\* A subscriber filtered to EURUSD and one with no filter saw an EURUSD merge
\* and then a GBPUSD merge: the first got one update, the second both.
C1_Witness ==
  \E s, t \in subs :
    /\ filter[s] = {EURUSD}
    /\ filter[t] = {}
    /\ Len(merges) = 2
    /\ merges[2].symbol = GBPUSD
    /\ UpdateSymbols(out[s]) = <<EURUSD>>
    /\ UpdateSymbols(out[t]) = <<EURUSD, GBPUSD>>

\* The snapshot object holds exactly the stored symbols the filter admits,
\* each with the stored fields: an unset field is absent, a set one is equal.
SameAsStore(all, flt) ==
  /\ DOMAIN all = {x \in DOMAIN quotes : flt = {} \/ x \in flt}
  /\ \A x \in DOMAIN all :
       \A f \in PriceFields \cup {"time"} :
         IF quotes[x][f] = Undef
         THEN f \notin DOMAIN all[x]
         ELSE f \in DOMAIN all[x] /\ all[x][f] = quotes[x][f]

\* A step that opens connection s as a subscriber.
Opens(s) == chan[s] = "none" /\ chan'[s] = "open"

\* C2 as stated: the first frame written to a new subscriber is a snapshot
\* that equals the store restricted to its filter at subscribe time.
C2_FirstFrameIsSnapshot ==
  [][\A s \in SubIds :
       Opens(s) => /\ IsSnapshot(out'[s][1])
                   /\ SameAsStore(out'[s][1].all, filter'[s])]_vars

\* C2 as amended: the first frame written to a new subscriber is the hello
\* frame and the second is a snapshot that equals the store restricted to its
\* filter at subscribe time; both stay the first two frames.
C2_HelloThenSnapshot ==
  [][\A s \in SubIds :
       /\ Opens(s) => /\ Len(out'[s]) = 2
                      /\ out'[s][1] = HelloFrame
                      /\ IsSnapshot(out'[s][2])
                      /\ SameAsStore(out'[s][2].all, filter'[s])
       /\ out[s] # <<>> => SubSeq(out'[s], 1, 2) = SubSeq(out[s], 1, 2)]_vars

\* A subscriber filtered to EURUSD joined a store holding both symbols and
\* was written a snapshot of EURUSD alone.
C2_Witness ==
  \E s \in SubIds :
    /\ Len(out[s]) >= 2
    /\ filter[s] = {EURUSD}
    /\ IsSnapshot(out[s][2])
    /\ DOMAIN out[s][2].all = {EURUSD}
    /\ DOMAIN quotes = {EURUSD, GBPUSD}

\* C3: every update frame written to a subscriber comes after a snapshot
\* frame written to it.
C3_NoUpdateBeforeSnapshot ==
  \A s \in SubIds :
    \A i \in 1..Len(out[s]) :
      IsUpdate(out[s][i]) => \E j \in 1..(i - 1) : IsSnapshot(out[s][j])

\* A subscriber joined between two merges: its snapshot holds the first and
\* an update carrying the second follows it.
C3_Witness ==
  \E s \in subs :
    /\ Len(merges) = 2
    /\ Len(out[s]) >= 3
    /\ IsSnapshot(out[s][2])
    /\ DOMAIN out[s][2].all # {}
    /\ Len(Updates(out[s])) = 1

\* The most recent patch of the log that supplies symbol x a finite number
\* for field f, or undefined when none does.
RECURSIVE LastFinite(_, _, _)
LastFinite(log, x, f) ==
  IF log = <<>> THEN Undef
  ELSE LET e == log[Len(log)] IN
       IF e.symbol = x /\ e.patch[f].k = "number" THEN e.patch[f]
       ELSE LastFinite(SubSeq(log, 1, Len(log) - 1), x, f)

\* The finite numbers each upstream message supplies.
Supplies(m) ==
  CASE m = EvQuote -> [bid |-> 1, ask |-> 2]
    [] m = EvTick -> [bid |-> 0]
    [] m = EvData -> [ask |-> 3]
    [] OTHER -> <<>>

\* C4: the stored bid, ask and last of a symbol are those of the most recent
\* delta that supplied a finite number for the field (0 included), or absent
\* when none did; a message's omitted and non-finite fields supply nothing.
C4_LastFiniteWins ==
  /\ [](\A x \in DOMAIN quotes : \A f \in PriceFields :
          quotes[x][f] = LastFinite(merges, x, f))
  /\ [][\A m \in Events :
          (OnStream(m) /\ Merged) =>
            \A f \in PriceFields :
              merges'[Len(merges')].patch[f] =
                IF f \in DOMAIN Supplies(m) THEN Num(Supplies(m)[f]) ELSE Undef]_vars

\* EURUSD got bid 1 and ask 2, then a delta with a null bid and a non-finite
\* last, then bid 0: the store holds bid 0, ask 2 and no last.
C4_Witness ==
  /\ Len(merges) = 3
  /\ merges[1].patch.bid = Num(1)
  /\ merges[2].symbol = EURUSD
  /\ \A f \in PriceFields : merges[2].patch[f] = Undef
  /\ merges[3].patch.bid = Num(0)
  /\ quotes[EURUSD].bid = Num(0)
  /\ quotes[EURUSD].ask = Num(2)
  /\ quotes[EURUSD].last = Undef

\* Two log entries are the same delta: same symbol, same bid, ask and last.
SameDelta(d, e) ==
  d.symbol = e.symbol /\ \A f \in PriceFields : d.patch[f] = e.patch[f]

\* C5: merging the delta that was merged last once more leaves the stored
\* bid, ask and last as they are.
C5_MergeIdempotent ==
  [][(Merged /\ merges # <<>> /\ SameDelta(merges[Len(merges)], merges'[Len(merges')]))
       => \A f \in PriceFields :
            quotes'[MergedSymbol][f] = quotes[MergedSymbol][f]]_vars

\* The same delta, with a finite ask, was merged twice in a row at different
\* times into a store that already held another symbol.
C5_Witness ==
  /\ Len(merges) = 3
  /\ SameDelta(merges[2], merges[3])
  /\ merges[1].symbol # merges[2].symbol
  /\ merges[3].patch.ask # Undef
  /\ merges[2].patch.time # merges[3].patch.time

\* C6 as stated: when a publish finds the connection of a matching
\* subscriber refusing the write, every other matching subscriber is still
\* written the update and the failing one leaves the registry with its
\* keepalive cancelled.
C6_WriteFailureRemoves ==
  [][\A s \in subs :
       (Merged /\ chan[s] = "broken" /\ Wants(s, MergedSymbol)) =>
         /\ \A t \in subs \ {s} : Wants(t, MergedSymbol) => GetsUpdate(t)
         /\ s \notin subs'
         /\ ~ping'[s]]_vars

\* C7: a removed subscriber is written nothing any more, and once a
\* subscriber was removed every registered one is still written exactly the
\* updates its filter accepts.
C7_RemovedGetsNothing ==
  [][\A s \in SubIds :
       /\ chan[s] = "closed" => out'[s] = out[s]
       /\ (s \in subs /\ Merged /\ \E r \in SubIds : chan[r] = "closed") =>
            IF Wants(s, MergedSymbol) THEN GetsUpdate(s) ELSE Written(s) = <<>>]_vars

\* Two unfiltered subscribers saw an EURUSD merge; one was removed and the
\* other alone was written the GBPUSD merge that followed.
C7_Witness ==
  \E s \in SubIds, t \in subs :
    /\ chan[s] = "closed"
    /\ filter[s] = {}
    /\ filter[t] = {}
    /\ Len(merges) = 2
    /\ merges[2].symbol = GBPUSD
    /\ UpdateSymbols(out[s]) = <<EURUSD>>
    /\ UpdateSymbols(out[t]) = <<EURUSD, GBPUSD>>

\* C8: once a subscriber was removed, running its removal again changes
\* neither the registry nor any keepalive.
C8_UnsubscribeIdempotent ==
  \A s \in SubIds :
    chan[s] = "closed" =>
      removed([subs |-> subs, ping |-> ping], s) = [subs |-> subs, ping |-> ping]

\* One subscriber was removed while another is registered with its
\* keepalive running.
C8_Witness ==
  \E s \in SubIds, t \in subs : chan[s] = "closed" /\ ping[t]

\* C9: the process exits only in a step taken when a poll is due, with the
\* socket not connected and more than STALE_MS since the last stream event.
C9_ExitOnlyWhenDownAndStale ==
  [][(~exited /\ exited') =>
       /\ now >= nextPoll
       /\ nextPoll' # nextPoll
       /\ ~connected
       /\ now - lastBrandEventAt > STALE_MS]_vars

\* The watchdog exited the process after a stream event had been received.
C9_Witness == exited /\ lastBrandEventAt >= StartTime

\* A step in which the watchdog polls.
Polls == ~exited /\ nextPoll' # nextPoll

\* C10: with STALE_MS 120000 a poll that finds the socket down exits the
\* process when 121000 ms have passed since the last stream event and not
\* when 119000 or 120000 have: it exits exactly when more than 120000 have.
C10_StrictThreshold ==
  [][(Polls /\ STALE_MS = 120000 /\ ~connected) =>
       /\ (now - lastBrandEventAt = 121000 => exited')
       /\ (now - lastBrandEventAt \in {119000, 120000} => ~exited')
       /\ (exited' <=> now - lastBrandEventAt > 120000)]_vars

\* The watchdog exited the process 121000 ms after the last stream event.
C10_Witness == exited /\ STALE_MS = 120000 /\ now - lastBrandEventAt = 121000

\* C11: with STALE_MS 0 the process never exits, whether the socket is
\* connected or not and however long ago the last stream event was.
C11_DisabledNeverExits == STALE_MS = 0 => ~exited

\* With STALE_MS 0 the watchdog polled twice while the socket was down, more
\* than 120000 ms after the last stream event, and the process runs on.
C11_Witness ==
  /\ STALE_MS = 0
  /\ ~exited
  /\ ~connected
  /\ lastBrandEventAt >= StartTime
  /\ now - lastBrandEventAt > DEFAULT_STALE_MS
  /\ nextPoll = now + POLL_MS

\* The record a merge leaves: a finite bid, ask or last of the delta
\* replaces the held one, the delta's time replaces the held time.
Applied(cur, patch) ==
  [f \in PriceFields \cup {"time"} |->
     IF f = "time" \/ patch[f].k = "number" THEN patch[f] ELSE cur[f]]

\* The store the merges of a log build, one after the other.
RECURSIVE StoreAfter(_)
StoreAfter(log) ==
  IF log = <<>> THEN <<>>
  ELSE LET before == StoreAfter(SubSeq(log, 1, Len(log) - 1))
           e == log[Len(log)]
           cur == IF e.symbol \in DOMAIN before THEN before[e.symbol]
                  ELSE [f \in PriceFields \cup {"time"} |-> Undef]
       IN (e.symbol :> Applied(cur, e.patch)) @@ before

\* A record as JSON shows it: the fields that are set.
Shown(rec) == [f \in {g \in DOMAIN rec : rec[g] # Undef} |-> rec[f]]

\* For each merge of the log, in order, its symbol and the record it left.
MergeRecords(log) ==
  [k \in 1..Len(log) |->
     [symbol |-> log[k].symbol,
      quote |-> Shown(StoreAfter(SubSeq(log, 1, k))[log[k].symbol])]]

\* The symbol and the record of each update frame of a sequence, in order.
UpdateRecords(frames) ==
  [i \in 1..Len(Updates(frames)) |->
     [symbol |-> Updates(frames)[i].symbol, quote |-> Updates(frames)[i].quote]]

\* The merges after the first p whose symbol subscriber s wants, in order.
WantedSince(s, p) ==
  LET Wanted(e) == Wants(s, e.symbol)
  IN SelectSeq(SubSeq(MergeRecords(merges), p + 1, Len(merges)), Wanted)

\* C12: the update frames written to a registered subscriber are, in order
\* and one frame per merge, the records of the merges of the symbols its
\* filter accepts from some point of the merge sequence on: none is
\* reordered, written twice or left out.
C12_UpdatesFollowMergeOrder ==
  \A s \in subs :
    \E p \in 0..Len(merges) : UpdateRecords(out[s]) = WantedSince(s, p)

\* A registered subscriber was written two updates of EURUSD, bid 1 and then
\* bid 0, the order in which the two were merged.
C12_Witness ==
  \E s \in subs :
    /\ Len(merges) = 2
    /\ merges[1].patch.bid = Num(1)
    /\ merges[2].patch.bid = Num(0)
    /\ UpdateSymbols(out[s]) = <<EURUSD, EURUSD>>
    /\ Updates(out[s])[1].quote.bid = Num(1)
    /\ Updates(out[s])[2].quote.bid = Num(0)

\* The symbols each query of Queries asks for: all of them, or EURUSD.
Asked(q) == IF q = Undef THEN {} ELSE {EURUSD}

\* C13: an authorised state request is answered with exactly the stored
\* symbols that are asked for (all of them when none is), each with the
\* record the whole merges before the request left, and with their number
\* as count.
C13_StateIsFilteredStore ==
  [][\A q \in Queries, tok \in Tokens :
       (reply' # reply /\ tok = Str(READ_TOKEN) /\ GetState(q, tok)) =>
         /\ reply'.status = 200
         /\ DOMAIN reply'.body.quotes =
              {x \in DOMAIN quotes : Asked(q) = {} \/ x \in Asked(q)}
         /\ \A x \in DOMAIN reply'.body.quotes :
              reply'.body.quotes[x] = Shown(StoreAfter(merges)[x])
         /\ reply'.body.count = Cardinality(DOMAIN reply'.body.quotes)]_vars

\* The store holds both symbols and the last state request, for EURUSD, was
\* answered with the EURUSD record alone and count 1.
C13_Witness ==
  /\ reply.route = "state"
  /\ reply.status = 200
  /\ DOMAIN quotes = {EURUSD, GBPUSD}
  /\ reply.body.count = 1
  /\ DOMAIN reply.body.quotes = {EURUSD}
  /\ reply.body.quotes[EURUSD] = Shown(quotes[EURUSD])
  /\ reply.body.quotes[EURUSD] = [bid |-> Num(1), ask |-> Num(2), time |-> Num(now)]

\* A step in which a JSON route sends its response.
Answers == reply' # reply

\* The answers the three routes give in the current state (the state route
\* to each authorised request).
Answer ==
  {[route |-> "state", status |-> 200, body |-> stateBody(parseSymbolsParam(q))] :
     q \in Queries}
    \cup {[route |-> "health", status |-> 200, body |-> healthBody],
          [route |-> "status", status |-> 200, body |-> statusBody]}

\* Every answer of the current state is a result: it counts the symbols it
\* reports, none when the store is empty.
Answerable ==
  \A r \in Answer :
    IF r.route = "state"
    THEN r.body.count = Cardinality(DOMAIN r.body.quotes)
           /\ DOMAIN r.body.quotes \subseteq DOMAIN quotes
    ELSE r.body.symbols = Cardinality(DOMAIN quotes)

\* C14: a state, health or brand-status request leaves the store, the
\* subscribers, lastBrandEventAt and lastConnectError as they are; every
\* state a step starts from, one with an empty store included, has a result
\* for each of the three requests, and a request is answered with it (the
\* state request with 401 when it lacks the read token).
C14_QueriesArePureReads ==
  [][/\ Answerable
     /\ Answers =>
          /\ UNCHANGED <<quotes, subs, filter, ping, out,
                         lastBrandEventAt, lastConnectError>>
          /\ reply' \in Answer \cup {Unauthorized("state")}]_vars

\* The store is empty, a subscriber is registered, a stream event and a
\* connect error were recorded, and the last request, for the brand status,
\* was answered with all of that.
C14_Witness ==
  /\ reply.route = "status"
  /\ reply.status = 200
  /\ quotes = <<>>
  /\ subs = {1}
  /\ lastBrandEventAt = now
  /\ lastConnectError # Str(<<>>)
  /\ reply.body.symbols = 0
  /\ reply.body.lastBrandEventAt = lastBrandEventAt
  /\ reply.body.lastConnectError = lastConnectError.v

\* The messages of Events that are not quote-like (type NEWS and no nested
\* quote, with or without a symbol) or that name no symbol.
Ignored == {EvNews, EvNewsQuote, EvNoSymbol}

\* C15: a stream event that is not quote-like, or that names no symbol,
\* leaves the store as it is and writes no frame to any subscriber.
C15_IgnoredEventsChangeNothing ==
  [][\A m \in Ignored :
       OnStream(m) => /\ quotes' = quotes
                      /\ merges' = merges
                      /\ \A s \in SubIds : Written(s) = <<>>]_vars

\* A stream event was received and none was merged: the store is empty and
\* the two registered subscribers hold their opening frames only.
C15_Witness ==
  /\ lastBrandEventAt = now
  /\ merges = <<>>
  /\ quotes = <<>>
  /\ subs = SubIds
  /\ \A s \in subs : Len(out[s]) = 2

\* The time each upstream message carries, when it carries one.
SuppliesTime(m) == IF m = EvTick THEN <<5>> ELSE <<>>

\* The delta a merging step merges.
MergedDelta == merges'[Len(merges')].patch

\* C16: every merge stores the time of the message, or the current time
\* when the message carries none, and every registered subscriber that wants
\* the symbol is written an update with that time; a merge into a stored
\* symbol of a delta with no finite bid, ask or last does so too and leaves
\* bid, ask and last as they are.
C16_TimeAlwaysReplaced ==
  [][\A m \in Events :
       (Merged /\ OnStream(m)) =>
         LET t == IF SuppliesTime(m) # <<>> THEN Num(SuppliesTime(m)[1]) ELSE Num(now)
         IN /\ quotes'[MergedSymbol].time = t
            /\ \A s \in subs :
                 Wants(s, MergedSymbol) =>
                   GetsUpdate(s) /\ Written(s)[1].quote.time = t
            /\ (MergedSymbol \in DOMAIN quotes
                  /\ \A f \in PriceFields : MergedDelta[f] = Undef) =>
                 \A f \in PriceFields :
                   quotes'[MergedSymbol][f] = quotes[MergedSymbol][f]]_vars

\* EURUSD was merged with bid 0 at time 5 and then with a delta of no finite
\* price and no time: the store keeps bid 0 under the current time, and a
\* subscriber was written both records.
C16_Witness ==
  \E s \in subs :
    /\ Len(merges) = 2
    /\ merges[1].patch.bid = Num(0)
    /\ merges[1].patch.time = Num(5)
    /\ merges[2].symbol = EURUSD
    /\ \A f \in PriceFields : merges[2].patch[f] = Undef
    /\ quotes[EURUSD].bid = Num(0)
    /\ quotes[EURUSD].time = Num(now)
    /\ Len(Updates(out[s])) = 2
    /\ Updates(out[s])[1].quote = [bid |-> Num(0), time |-> Num(5)]
    /\ Updates(out[s])[2].quote = [bid |-> Num(0), time |-> Num(now)]

\* A snapshot object with the quote of each update frame of a sequence put
\* over it, in order.
RECURSIVE Overwritten(_, _)
Overwritten(all, frames) ==
  IF frames = <<>> THEN all
  ELSE IF IsUpdate(Head(frames))
       THEN Overwritten((Head(frames).symbol :> Head(frames).quote) @@ all,
                        Tail(frames))
       ELSE Overwritten(all, Tail(frames))

\* What the client of subscriber s holds: its snapshot, overwritten by the
\* updates written to it since.
Rebuilt(s) == Overwritten(out[s][2].all, SubSeq(out[s], 3, Len(out[s])))

\* C17: for every registered subscriber, its snapshot overwritten by the
\* updates written to it since holds exactly the stored symbols its filter
\* accepts, each with the record now in the store.
C17_SnapshotPlusUpdatesIsStore ==
  \A s \in subs : SameAsStore(Rebuilt(s), filter[s])

\* A subscriber filtered to EURUSD took a snapshot with bid 1 and ask 2 and
\* was then written an update with bid 0; GBPUSD is not stored. What it
\* holds, bid 0 and ask 2, is the stored record.
C17_Witness ==
  \E s \in subs :
    /\ filter[s] = {EURUSD}
    /\ DOMAIN out[s][2].all = {EURUSD}
    /\ out[s][2].all[EURUSD] = [bid |-> Num(1), ask |-> Num(2), time |-> Num(now)]
    /\ Len(Updates(out[s])) = 1
    /\ Rebuilt(s)[EURUSD] = [bid |-> Num(0), ask |-> Num(2), time |-> Num(5)]
    /\ quotes[EURUSD] = [bid |-> Num(0), ask |-> Num(2), last |-> Undef, time |-> Num(5)]

\* C18: every stream event sets lastBrandEventAt to the current time,
\* whether or not it is merged into the store, and no other step changes
\* lastBrandEventAt.
C18_EveryEventRefreshes ==
  [][/\ \A m \in Events : OnStream(m) => lastBrandEventAt' = now
     /\ lastBrandEventAt' # lastBrandEventAt => \E m \in Events : OnStream(m)]_vars

\* No event was ever merged into the store, and lastBrandEventAt is the
\* time, one poll after the start, of an event that was not.
C18_Witness ==
  /\ merges = <<>>
  /\ quotes = <<>>
  /\ lastBrandEventAt = StartTime + POLL_MS
  /\ lastBrandEventAt = now

\* C19: while no stream event was ever received (lastBrandEventAt is 0) and
\* STALE_MS is not 0, every poll that finds the socket not connected exits
\* the process, the first poll after the start included.
C19_NoEventYetExits ==
  [][(Polls /\ lastBrandEventAt = 0 /\ STALE_MS # 0 /\ ~connected) => exited']_vars

\* The process exited at its first poll, 30 s after the start, without a
\* stream event ever received.
C19_Witness ==
  /\ exited
  /\ lastBrandEventAt = 0
  /\ STALE_MS # 0
  /\ now = StartTime + POLL_MS

\* C20: the keepalive interval of a connection is active exactly when the
\* connection is in the registry.
C20_KeepaliveIffRegistered == \A s \in SubIds : ping[s] <=> s \in subs

\* One subscriber was written a keepalive pulse and then removed, its
\* interval cleared; another is registered with its interval active.
C20_Witness ==
  \E s \in SubIds, t \in subs :
    /\ chan[s] = "closed"
    /\ s \notin subs
    /\ ~ping[s]
    /\ ping[t]
    /\ \E i \in 1..Len(out[s]) : out[s][i] = PingFrame

====
